---- MODULE Spec2Model ----
(***************************************************************************)
(* Cart-to-order checkout of the storefront backend:                       *)
(* ShoppingCartController.addItemToCart, emptyCart, createOrder and        *)
(* processStripePayment (src/src/controllers/shoppingCart.controller.js,   *)
(* the implemented class at lines 308-681).  Every handler is split at its *)
(* await points; the steps of concurrent requests interleave freely, one   *)
(* database / gateway / mail operation at a time.                          *)
(***************************************************************************)
EXTENDS Integers, Sequences, FiniteSets, TLC

\* ---------------------------------------------------------------- bounds
MaxReqs  == 3      \* createOrder / processStripePayment requests per run
MaxItems == 1      \* shopping_cart rows ever inserted per run
MaxCartRows == 2   \* the same, in the runs that look at cart contents and prices

\* ------------------------------------------------------- request inputs
CartIds        == {"c1"}
CustomerIds    == {1, 2}             \* the customers there are from the start
Callers        == {1}                \* req.customer_id of the checkout requests
ProductIds     == {1, 2, 3, 4}
ProductInputs  == {2, 9}             \* 9: no such product
Quantities     == {2}
ShippingIds    == {1}
TaxIds         == {1}
\* <<shipping_id, tax_id>> of a request; 7: no such shipping / tax option
RefInputs      == {<<1, 1>>, <<7, 1>>, <<1, 7>>}
OrderInputs    == {1, 2}
EmailInputs    == {"", "alt@x"}      \* "": req.body.email absent

\* ------------------------------------------------------- static tables
ProductTable ==
  [p \in ProductIds |->
     CASE p = 1 -> [name |-> "A", price |-> 10, discounted_price |-> 0]
       [] p = 2 -> [name |-> "B", price |-> 5,  discounted_price |-> 4]
       [] p = 3 -> [name |-> "C", price |-> 5,  discounted_price |-> 6]
       [] OTHER -> [name |-> "D", price |-> 5,  discounted_price |-> -1]]

CustomerTable ==
  [c \in CustomerIds |-> [customer_id |-> c, name |-> "N",
                          email |-> IF c = 1 THEN "own@x" ELSE "two@x",
                          credit_card |-> <<>>]]

VARIABLES
  shopping_cart,   \* table shopping_cart: sequence of rows
  next_item_id,    \* auto-increment of shopping_cart.item_id
  cart_gen,        \* history: how many times each cart_id went from no rows to some
  orders,          \* table orders (with its order_detail rows); order_id = index
  charges,         \* the gateway's ledger: the set of successful charges
  outbox,          \* the set of confirmation mails the transport accepted
  creates,         \* the createOrder requests so far, in flight or answered
  pays,            \* the processStripePayment requests so far, likewise
  customers,       \* table customer: sequence of rows, customer_id = index
  last_resp,       \* the last answer of a read handler / updateCreditCard
  auths,           \* the requests that came to the router, in the auth middleware or past it
  profiles         \* the create / updateCustomerProfile requests so far

\* what the cart-to-order handlers leave alone
side == <<customers, last_resp, auths, profiles>>

vars == <<shopping_cart, next_item_id, cart_gen, orders, charges, outbox,
          creates, pays, customers, last_resp, auths, profiles>>

\* ------------------------------------------------------------- helpers
\* A nullable value is a sequence of length 0 (null) or 1.
Null     == <<>>
Some(v)  == <<v>>
Truthy(opt) == opt /= Null

\* A promise that was not awaited: an object, whatever it resolves to.
Pending(opt) == Some([promise |-> opt])

RECURSIVE SumSeq(_)
SumSeq(s) == IF s = <<>> THEN 0 ELSE Head(s) + SumSeq(Tail(s))

\* The response of a request that has not answered yet.
NoResp == [status |-> 0, via |-> "", error |-> "", order_id |-> 0,
           charge_id |-> 0, warning |-> FALSE, keys |-> {}]

\* res.status(s).json(...)
Json(s, oid, cid) == [status |-> s, via |-> "json", error |-> "",
                      order_id |-> oid, charge_id |-> cid, warning |-> FALSE,
                      keys |-> IF s >= 400 THEN {"error"} ELSE {}]

\* next(error): the error is handed to the error middleware.
NextErr(e) == [status |-> 0, via |-> "next", error |-> e, order_id |-> 0,
               charge_id |-> 0, warning |-> FALSE, keys |-> {}]

\* The locals of a createOrder invocation (order_id: the order it made, 0 if none).
NewCreate ==
  [pc |-> "done", customer_id |-> 0, cart_id |-> "", shipping_id |-> 0,
   tax_id |-> 0, cart |-> Null, gen |-> 0, order_id |-> 0, resp |-> NoResp]

\* The locals of a processStripePayment invocation (gateway, mail: what the
\* gateway and the mail transport answered, "" if not asked).
NewPay ==
  [pc |-> "done", customer_id |-> 0, order_id |-> 0, order |-> Null,
   customer |-> Null, stripeEmail |-> "", charge |-> Null, gateway |-> "",
   mail |-> "", settled_before |-> FALSE, gateway_calls |-> 0, resp |-> NoResp]

\* ------------------------------------------------------ database reads
\* ShoppingCart rows WHERE cart_id = c
CartRows(c) == SelectSeq(shopping_cart, LAMBDA row : row.cart_id = c)

\* ShoppingCart.findOne({ where: { cart_id } })
CartFindOne(c) == IF CartRows(c) = <<>> THEN Null ELSE Some(Head(CartRows(c)))

\* Product.findOne({ where: { product_id } })
ProductFindOne(p) == IF p \in ProductIds THEN Some(ProductTable[p]) ELSE Null

\* Shipping.findByPk / Tax.findByPk: what the promise resolves to
ShippingFindByPk(id) == IF id \in ShippingIds THEN Some(id) ELSE Null
TaxFindByPk(id)      == IF id \in TaxIds THEN Some(id) ELSE Null

\* Order.findByPk(order_id, { include: orderItems })
OrderFindByPk(id) == IF id \in 1..Len(orders) THEN Some(orders[id]) ELSE Null

\* Customer.findByPk(customer_id)
CustomerFindByPk(id) == IF id \in DOMAIN customers THEN Some(customers[id]) ELSE Null

\* Successful charges the gateway holds for an order.
ChargesOf(oid) == {ch \in charges : ch.order = oid}

\* --------------------------------------------------------- cart handlers
\* addItemToCart: Product.findOne, then ShoppingCart.create({ ...req.body }).
\* The product table never changes, so the two awaits are taken as one step.
AddItemToCart(c, p, q) ==
  /\ IF Truthy(ProductFindOne(p))
       THEN /\ shopping_cart' = Append(shopping_cart,
                 [item_id |-> next_item_id, cart_id |-> c,
                  product_id |-> p, quantity |-> q])
            /\ cart_gen' = [cart_gen EXCEPT
                 ![c] = IF CartRows(c) = <<>> THEN @ + 1 ELSE @]
            /\ next_item_id' = next_item_id + 1
       ELSE UNCHANGED <<shopping_cart, cart_gen, next_item_id>>     \* 404
  /\ UNCHANGED <<orders, charges, outbox, creates, pays>>
  /\ UNCHANGED side

\* Lines 386-393: item.subtotal = item.discounted_price ? item.discounted_price *
\* item.quantity : item.price * item.quantity.  A number is truthy unless it is 0.
CartItemSubtotal(item) ==
  IF item.discounted_price /= 0 THEN item.discounted_price * item.quantity
                                ELSE item.price * item.quantity

\* Lines 372-385: ShoppingCart.findAll with the product's name and prices
\* included; the price columns are read under the names the handler uses.
CartFindAll(c) ==
  [i \in 1..Len(CartRows(c)) |->
     [item_id          |-> CartRows(c)[i].item_id,
      product_id       |-> CartRows(c)[i].product_id,
      quantity         |-> CartRows(c)[i].quantity,
      name             |-> ProductTable[CartRows(c)[i].product_id].name,
      price            |-> ProductTable[CartRows(c)[i].product_id].price,
      discounted_price |-> ProductTable[CartRows(c)[i].product_id].discounted_price]]

\* getCart saving each row back with the subtotal it has computed.
GetCartSavesSubtotal(c) ==
  /\ last_resp' =
       [op |-> "getCart", status |-> 200, cart_id |-> c,
        items |-> [i \in 1..Len(CartFindAll(c)) |->
           [item_id          |-> CartFindAll(c)[i].item_id,
            product_id       |-> CartFindAll(c)[i].product_id,
            quantity         |-> CartFindAll(c)[i].quantity,
            name             |-> CartFindAll(c)[i].name,
            price            |-> CartFindAll(c)[i].price,
            discounted_price |-> CartFindAll(c)[i].discounted_price,
            subtotal         |-> CartItemSubtotal(CartFindAll(c)[i])]]]
  /\ shopping_cart' =
       [i \in 1..Len(shopping_cart) |->
          IF shopping_cart[i].cart_id = c
            THEN [shopping_cart[i] EXCEPT !.quantity =
                    CartItemSubtotal([quantity |-> shopping_cart[i].quantity,
                       price |-> ProductTable[shopping_cart[i].product_id].price,
                       discounted_price |->
                         ProductTable[shopping_cart[i].product_id].discounted_price])]
            ELSE shopping_cart[i]]
  /\ UNCHANGED <<next_item_id, cart_gen, orders, charges, outbox,
                 creates, pays, customers, auths, profiles>>

\* getCart: the rows of the cart, each with its subtotal, answered 200.
GetCart(c) ==
  /\ last_resp' =
       [op |-> "getCart", status |-> 200, cart_id |-> c,
        items |-> [i \in 1..Len(CartFindAll(c)) |->
           [item_id          |-> CartFindAll(c)[i].item_id,
            product_id       |-> CartFindAll(c)[i].product_id,
            quantity         |-> CartFindAll(c)[i].quantity,
            name             |-> CartFindAll(c)[i].name,
            price            |-> CartFindAll(c)[i].price,
            discounted_price |-> CartFindAll(c)[i].discounted_price,
            subtotal         |-> CartItemSubtotal(CartFindAll(c)[i])]]]
  /\ UNCHANGED <<shopping_cart, next_item_id, cart_gen, orders, charges, outbox,
                 creates, pays, customers, auths, profiles>>

\* updateCartItem: ShoppingCart.findByPk(item_id), then item.update({ quantity });
\* 404 when there is no such row.
UpdateCartItem(id, q) ==
  /\ shopping_cart' =
       [i \in 1..Len(shopping_cart) |->
          IF shopping_cart[i].item_id = id
            THEN [shopping_cart[i] EXCEPT !.quantity = q]
            ELSE shopping_cart[i]]
  /\ UNCHANGED <<next_item_id, cart_gen, orders, charges, outbox, creates, pays>>
  /\ UNCHANGED side

\* emptyCart: ShoppingCart.destroy({ where: { cart_id } }); 404 when no row went.
EmptyCart(c) ==
  /\ CartRows(c) /= <<>>
  /\ shopping_cart' = SelectSeq(shopping_cart, LAMBDA row : row.cart_id /= c)
  /\ UNCHANGED <<next_item_id, cart_gen, orders, charges, outbox, creates, pays>>
  /\ UNCHANGED side

\* ------------------------------------------- stored procedure (database)
ShippingCost(id) == IF id \in ShippingIds THEN 3 ELSE 0
TaxAmount(id)    == IF id \in TaxIds THEN 2 ELSE 0

\* unit cost of a product: the discounted price when there is one
UnitCost(p) ==
  LET pr == ProductTable[p]
  IN  IF pr.discounted_price > 0 /\ pr.discounted_price < pr.price
        THEN pr.discounted_price ELSE pr.price

\* order_detail rows: one snapshot per cart row
OrderItemsOf(rows) ==
  [i \in 1..Len(rows) |->
     [product_name |-> ProductTable[rows[i].product_id].name,
      quantity     |-> rows[i].quantity,
      unit_cost    |-> UnitCost(rows[i].product_id)]]

ItemsSubtotal(items) ==
  SumSeq([i \in 1..Len(items) |-> items[i].unit_cost * items[i].quantity])

\* The procedure leaving shipping and tax out of the total.
ShoppingCartCreateOrderItemsOnly(c, cust, ship, tax, gen) ==
  LET items == OrderItemsOf(CartRows(c))
      row   == [order_id     |-> Len(orders) + 1,
                customer_id  |-> cust,
                shipping_id  |-> ship,
                tax_id       |-> tax,
                total_amount |-> ItemsSubtotal(items),
                status       |-> "created",
                orderItems   |-> items,
                cart_id      |-> c,
                cart_gen     |-> gen]
  IN  <<Append(orders, row),
        SelectSeq(shopping_cart, LAMBDA r : r.cart_id /= c)>>

\* CALL shopping_cart_create_order(cart_id, customer_id, shipping_id, tax_id):
\* one indivisible unit that inserts the order row and one order_detail row per
\* cart row, and consumes the cart.  The new state of <<orders, shopping_cart>>.
ShoppingCartCreateOrder(c, cust, ship, tax, gen) ==
  LET items == OrderItemsOf(CartRows(c))
      row   == [order_id     |-> Len(orders) + 1,
                customer_id  |-> cust,
                shipping_id  |-> ship,
                tax_id       |-> tax,
                total_amount |-> ItemsSubtotal(items) + ShippingCost(ship)
                                   + TaxAmount(tax),
                status       |-> "created",
                orderItems   |-> items,
                cart_id      |-> c,
                cart_gen     |-> gen]
  IN  <<Append(orders, row),
        SelectSeq(shopping_cart, LAMBDA r : r.cart_id /= c)>>

\* ------------------------------------------------------------ createOrder
\* The checks with the cart check left out.
CreateOrderChecksNoCart(cart, shipping, tax) ==
  IF ~Truthy(shipping) THEN "ShippingNotFound"
  ELSE IF ~Truthy(tax) THEN "TaxNotFound"
  ELSE "ok"

\* Lines 506-534: the awaited cart lookup, then (same tick) the shipping and tax
\* lookups, neither of which is awaited.
CreateOrderChecks(cart, shipping, tax) ==
  IF ~Truthy(cart) THEN "CartNotFound"
  ELSE IF ~Truthy(shipping) THEN "ShippingNotFound"
  ELSE IF ~Truthy(tax) THEN "TaxNotFound"
  ELSE "ok"

CO_FindCart(c, cust, ship, tax) ==
  /\ Len(creates) + Len(pays) < MaxReqs
  /\ LET cart     == CartFindOne(c)
         shipping == Pending(ShippingFindByPk(ship))
         taxv     == Pending(TaxFindByPk(tax))
         verdict  == CreateOrderChecks(cart, shipping, taxv)
         r0       == [NewCreate EXCEPT
                        !.customer_id = cust, !.cart_id = c,
                        !.shipping_id = ship, !.tax_id = tax,
                        !.cart = cart, !.gen = cart_gen[c]]
     IN  creates' = Append(creates,
           IF verdict = "ok"
             THEN [r0 EXCEPT !.pc = "query"]
             ELSE [r0 EXCEPT !.pc = "done",
                             !.resp = [Json(404, 0, 0) EXCEPT !.error = verdict]])
  /\ UNCHANGED <<shopping_cart, next_item_id, cart_gen, orders, charges, outbox, pays>>
  /\ UNCHANGED side

\* The answer reading a column the result set does not have: an empty body.
CreateOrderResponseNoId(result) ==
  IF Len(result) = 1 THEN Json(201, 0, 0)
  ELSE [Json(500, 0, 0) EXCEPT !.error = "Cannot create a new order"]

\* Lines 541-549: the answer to the procedure's result set; the body of the 201
\* is { order_id }.
CreateOrderResponse(result) ==
  IF Len(result) = 1
    THEN [Json(201, result[1].orderId, 0) EXCEPT !.keys = {"order_id"}]
  ELSE [Json(500, 0, 0) EXCEPT !.error = "Cannot create a new order"]

\* createOrder writing the order row by itself before the rest of the unit
\* is rejected: the row stays behind.
CO_QueryPartial(r) ==
  /\ creates[r].pc = "query"
  /\ LET new == ShoppingCartCreateOrder(creates[r].cart_id, creates[r].customer_id,
                   creates[r].shipping_id, creates[r].tax_id, creates[r].gen)
     IN  \/ /\ orders' = new[1]
            /\ shopping_cart' = new[2]
            /\ creates' = [creates EXCEPT ![r] = [@ EXCEPT
                 !.pc = "done", !.order_id = Len(new[1]),
                 !.resp = CreateOrderResponse(<<[orderId |-> Len(new[1])]>>)]]
         \/ /\ orders' = new[1]
            /\ creates' = [creates EXCEPT ![r] = [@ EXCEPT
                 !.pc = "done", !.resp = NextErr("DatabaseError")]]
            /\ UNCHANGED shopping_cart
  /\ UNCHANGED <<next_item_id, cart_gen, charges, outbox, pays>>
  /\ UNCHANGED side

\* Lines 535-552: the procedure call, which the database runs as one unit or
\* rejects (a rejection reaches the catch block: next(error)).
CO_Query(r) ==
  /\ creates[r].pc = "query"
  /\ \/ LET new == ShoppingCartCreateOrder(creates[r].cart_id, creates[r].customer_id,
                     creates[r].shipping_id, creates[r].tax_id, creates[r].gen)
        IN  /\ orders' = new[1]
            /\ shopping_cart' = new[2]
            /\ creates' = [creates EXCEPT ![r] = [@ EXCEPT
                 !.pc = "done", !.order_id = Len(new[1]),
                 !.resp = CreateOrderResponse(<<[orderId |-> Len(new[1])]>>)]]
     \/ /\ creates' = [creates EXCEPT ![r] = [@ EXCEPT
                 !.pc = "done", !.resp = NextErr("DatabaseError")]]
        /\ UNCHANGED <<orders, shopping_cart>>
  /\ UNCHANGED <<next_item_id, cart_gen, charges, outbox, pays>>
  /\ UNCHANGED side

\* ---------------------------------------------------- processStripePayment
Tokens == {"tok_ok", "tok_bad"}

\* stripe.charges.create: what the gateway can answer for a token.
GatewayOutcomes(tok) ==
  IF tok = "tok_ok" THEN {"succeeded", "unreachable"}
                    ELSE {"declined", "unreachable"}

\* The error stripe.charges.create rejects with.
GatewayError(outcome) ==
  IF outcome = "declined" THEN "StripeCardError" ELSE "StripeConnectionError"

\* Line 635: item.subtotal = item.unit_cost * item.quantity, on the loaded object.
WithSubtotals(order) ==
  [order EXCEPT !.orderItems =
     [i \in 1..Len(order.orderItems) |->
        [product_name |-> order.orderItems[i].product_name,
         quantity     |-> order.orderItems[i].quantity,
         unit_cost    |-> order.orderItems[i].unit_cost,
         subtotal     |-> order.orderItems[i].unit_cost
                            * order.orderItems[i].quantity]]]

\* Line 637: const stripeEmail = email || customer.email
StripeEmail(email, customer) == IF email /= "" THEN email ELSE customer.email

\* The amount passed on in major units.
ChargeAmountUnits(order) == order.total_amount

\* Line 639: amount: order.total_amount * 100
ChargeAmount(order) == order.total_amount * 100

\* Lines 655-671: the keys of the answered charge: the gateway's, then
\* billing_details and order.
ChargeKeys == {"id", "amount", "currency", "billing_details", "order"}

\* History: a settlement of this order that reached the gateway has already answered.
SettledBefore(oid) ==
  \E q \in 1..Len(pays) :
     /\ pays[q].order_id = oid
     /\ pays[q].pc = "done" /\ pays[q].gateway /= ""

\* CALL orders_get_order_short_details(order_id): the rows it selects.
OrdersGetOrderShortDetails(oid) ==
  IF oid \in 1..Len(orders)
    THEN <<[order_id |-> oid, total_amount |-> orders[oid].total_amount,
            status |-> orders[oid].status]>>
    ELSE <<>>

\* CALL orders_get_by_customer_id(customer_id): the rows it selects.
OrdersGetByCustomerId(cust) ==
  SelectSeq([i \in 1..Len(orders) |->
               [order_id |-> i, total_amount |-> orders[i].total_amount,
                customer_id |-> orders[i].customer_id]],
            LAMBDA row : row.customer_id = cust)

\* getOrderSummary: the procedure's result set is an array, which is truthy
\* also when it is empty: the answer is 200 with the rows.
GetOrderSummary(oid) ==
  /\ last_resp' = [op |-> "getOrderSummary", status |-> 200, order_id |-> oid,
                   rows |-> OrdersGetOrderShortDetails(oid)]
  /\ UNCHANGED <<shopping_cart, next_item_id, cart_gen, orders, charges, outbox,
                 creates, pays, customers, auths, profiles>>

\* getCustomerOrders: 200 with the rows of the caller's orders.
GetCustomerOrders(cust) ==
  /\ last_resp' = [op |-> "getCustomerOrders", status |-> 200, customer_id |-> cust,
                   rows |-> OrdersGetByCustomerId(cust)]
  /\ UNCHANGED <<shopping_cart, next_item_id, cart_gen, orders, charges, outbox,
                 creates, pays, customers, auths, profiles>>

\* The lookup that saves the order back with the subtotals it has put on the
\* loaded items.
PS_FindOrderSavesItems(oid, cust) ==
  /\ Len(creates) + Len(pays) < MaxReqs
  /\ LET order == OrderFindByPk(oid)
         r0    == [NewPay EXCEPT !.customer_id = cust, !.order_id = oid]
     IN  IF ~Truthy(order)
           THEN /\ pays' = Append(pays, [r0 EXCEPT !.pc = "done",
                      !.resp = [Json(404, 0, 0) EXCEPT !.error = "OrderNotFound"]])
                /\ orders' = orders
           ELSE /\ pays' = Append(pays, [r0 EXCEPT !.pc = "findCustomer",
                      !.order = Some(WithSubtotals(order[1])),
                      !.settled_before = SettledBefore(oid)])
                /\ orders' = [orders EXCEPT ![oid] = WithSubtotals(order[1])]
  /\ UNCHANGED <<shopping_cart, next_item_id, cart_gen, charges, outbox, creates>>
  /\ UNCHANGED side

\* The lookup without the check of its result: the handler goes on to read the
\* items of an order that is not there and ends in the catch block.
PS_FindOrderNoCheck(oid, cust) ==
  /\ Len(creates) + Len(pays) < MaxReqs
  /\ LET order == OrderFindByPk(oid)
         r0    == [NewPay EXCEPT !.customer_id = cust, !.order_id = oid]
     IN  pays' = Append(pays,
           IF ~Truthy(order)
             THEN [r0 EXCEPT !.pc = "done", !.resp = NextErr("TypeError")]
             ELSE [r0 EXCEPT !.pc = "findCustomer",
                             !.order = Some(WithSubtotals(order[1])),
                             !.settled_before = SettledBefore(oid)])
  /\ UNCHANGED <<shopping_cart, next_item_id, cart_gen, orders, charges, outbox, creates>>
  /\ UNCHANGED side

\* Lines 618-635: load the order with its items; 404 when there is none.
PS_FindOrder(oid, cust) ==
  /\ Len(creates) + Len(pays) < MaxReqs
  /\ LET order == OrderFindByPk(oid)
         r0    == [NewPay EXCEPT !.customer_id = cust, !.order_id = oid]
     IN  pays' = Append(pays,
           IF ~Truthy(order)
             THEN [r0 EXCEPT !.pc = "done",
                             !.resp = [Json(404, 0, 0) EXCEPT !.error = "OrderNotFound"]]
             ELSE [r0 EXCEPT !.pc = "findCustomer",
                             !.order = Some(WithSubtotals(order[1])),
                             !.settled_before = SettledBefore(oid)])
  /\ UNCHANGED <<shopping_cart, next_item_id, cart_gen, orders, charges, outbox, creates>>
  /\ UNCHANGED side

\* A settlement that marks the order paid before it has called the gateway.
PS_FindCustomerMarksPaid(r, email) ==
  /\ pays[r].pc = "findCustomer"
  /\ LET customer == CustomerFindByPk(pays[r].customer_id)
     IN  pays' = [pays EXCEPT ![r] = [@ EXCEPT
           !.pc = "charge", !.customer = customer,
           !.stripeEmail = StripeEmail(email, customer[1])]]
  /\ orders' = [orders EXCEPT ![pays[r].order_id].status = "paid"]
  /\ UNCHANGED <<shopping_cart, next_item_id, cart_gen, charges, outbox, creates>>
  /\ UNCHANGED side

\* Lines 636-637: load the authenticated customer, pick the recipient.
PS_FindCustomer(r, email) ==
  /\ pays[r].pc = "findCustomer"
  /\ LET customer == CustomerFindByPk(pays[r].customer_id)
     IN  pays' = [pays EXCEPT ![r] = [@ EXCEPT
           !.pc = "charge", !.customer = customer,
           !.stripeEmail = StripeEmail(email, customer[1])]]
  /\ UNCHANGED <<shopping_cart, next_item_id, cart_gen, orders, charges, outbox, creates>>
  /\ UNCHANGED side

\* A settlement that records the gateway's answer on the order without looking
\* at the status the order has by then.
OrdersAfterGatewayUnguarded(oid, outcome) ==
  [orders EXCEPT ![oid].status =
     IF outcome = "succeeded" THEN "paid" ELSE "payment_failed"]

\* What the handler writes to the orders table once the gateway has answered:
\* nothing (lines 638-679 hold no Order write).
OrdersAfterGateway(oid, outcome) == orders

\* A settlement that calls the gateway a second time when the first call found
\* it unreachable.
PS_ChargeRetry(r) ==
  /\ pays[r].pc = "charge"
  /\ \E tok \in Tokens : \E outcome \in GatewayOutcomes(tok) :
       /\ IF outcome = "succeeded"
            THEN LET charge == [id       |-> r,
                                amount   |-> ChargeAmount(pays[r].order[1]),
                                currency |-> "aud",
                                order    |-> pays[r].order_id,
                                email    |-> pays[r].stripeEmail]
                 IN  /\ charges' = charges \cup {charge}
                     /\ pays' = [pays EXCEPT ![r] = [@ EXCEPT
                          !.pc = "mail", !.gateway = outcome,
                          !.gateway_calls = @ + 1,
                          !.charge = Some(charge)]]
            ELSE /\ charges' = charges
                 /\ pays' = [pays EXCEPT ![r] = [@ EXCEPT
                      !.pc = IF outcome = "unreachable" /\ pays[r].gateway_calls = 0
                               THEN "charge" ELSE "done",
                      !.gateway = outcome,
                      !.gateway_calls = @ + 1,
                      !.resp = IF outcome = "unreachable" /\ pays[r].gateway_calls = 0
                                 THEN NoResp ELSE NextErr(GatewayError(outcome))]]
       /\ orders' = OrdersAfterGateway(pays[r].order_id, outcome)
  /\ UNCHANGED <<shopping_cart, next_item_id, cart_gen, outbox, creates>>
  /\ UNCHANGED side

\* A settlement that goes on to the confirmation mail whatever the gateway
\* answered.
PS_ChargeMailsAnyway(r) ==
  /\ pays[r].pc = "charge"
  /\ \E tok \in Tokens : \E outcome \in GatewayOutcomes(tok) :
       /\ IF outcome = "succeeded"
            THEN LET charge == [id       |-> r,
                                amount   |-> ChargeAmount(pays[r].order[1]),
                                currency |-> "aud",
                                order    |-> pays[r].order_id,
                                email    |-> pays[r].stripeEmail]
                 IN  /\ charges' = charges \cup {charge}
                     /\ pays' = [pays EXCEPT ![r] = [@ EXCEPT
                          !.pc = "mail", !.gateway = outcome,
                          !.gateway_calls = @ + 1,
                          !.charge = Some(charge)]]
            ELSE /\ charges' = charges
                 /\ pays' = [pays EXCEPT ![r] = [@ EXCEPT
                      !.pc = "mail", !.gateway = outcome,
                      !.gateway_calls = @ + 1]]
       /\ orders' = OrdersAfterGateway(pays[r].order_id, outcome)
  /\ UNCHANGED <<shopping_cart, next_item_id, cart_gen, outbox, creates>>
  /\ UNCHANGED side

\* Lines 638-643 and the catch at 677-679: the gateway call and its answer.
PS_Charge(r) ==
  /\ pays[r].pc = "charge"
  /\ \E tok \in Tokens : \E outcome \in GatewayOutcomes(tok) :
       /\ IF outcome = "succeeded"
            THEN LET charge == [id       |-> r,
                                amount   |-> ChargeAmount(pays[r].order[1]),
                                currency |-> "aud",
                                order    |-> pays[r].order_id,
                                email    |-> pays[r].stripeEmail]
                 IN  /\ charges' = charges \cup {charge}
                     /\ pays' = [pays EXCEPT ![r] = [@ EXCEPT
                          !.pc = "mail", !.gateway = outcome,
                          !.gateway_calls = @ + 1,
                          !.charge = Some(charge)]]
            ELSE /\ charges' = charges
                 /\ pays' = [pays EXCEPT ![r] = [@ EXCEPT
                      !.pc = "done", !.gateway = outcome,
                      !.gateway_calls = @ + 1,
                      !.resp = NextErr(GatewayError(outcome))]]
       /\ orders' = OrdersAfterGateway(pays[r].order_id, outcome)
  /\ UNCHANGED <<shopping_cart, next_item_id, cart_gen, outbox, creates>>
  /\ UNCHANGED side

\* A confirmation step that undoes the charge when the mail cannot be sent.
PS_SendMailRollback(r) ==
  /\ pays[r].pc = "mail"
  /\ \/ /\ outbox' = outbox \cup
              {[to |-> pays[r].stripeEmail, order |-> pays[r].order_id, req |-> r]}
        /\ charges' = charges
        /\ pays' = [pays EXCEPT ![r] = [@ EXCEPT
              !.pc = "done", !.mail = "sent",
              !.resp = [Json(200, pays[r].order_id, pays[r].charge[1].id)
                          EXCEPT !.keys = ChargeKeys]]]
     \/ /\ outbox' = outbox
        /\ charges' = charges \ {pays[r].charge[1]}
        /\ pays' = [pays EXCEPT ![r] = [@ EXCEPT
              !.pc = "done", !.mail = "failed",
              !.resp = NextErr("MailError")]]
  /\ UNCHANGED <<shopping_cart, next_item_id, cart_gen, orders, creates>>
  /\ UNCHANGED side

\* Lines 653-676: the confirmation mail; then answer 200 with the charge, or
\* hand the transport's error to next.
PS_SendMail(r) ==
  /\ pays[r].pc = "mail"
  /\ \/ /\ outbox' = outbox \cup
              {[to |-> pays[r].stripeEmail, order |-> pays[r].order_id, req |-> r]}
        /\ pays' = [pays EXCEPT ![r] = [@ EXCEPT
              !.pc = "done", !.mail = "sent",
              !.resp = [Json(200, pays[r].order_id, pays[r].charge[1].id)
                          EXCEPT !.keys = ChargeKeys]]]
     \/ /\ outbox' = outbox
        /\ pays' = [pays EXCEPT ![r] = [@ EXCEPT
              !.pc = "done", !.mail = "failed",
              !.resp = NextErr("MailError")]]
  /\ UNCHANGED <<shopping_cart, next_item_id, cart_gen, orders, charges, creates>>
  /\ UNCHANGED side

\* Lines 638-643: await stripe.charges.create(...) with a gateway that never
\* answers.  The handler arms no timer: the request stays where it is.
PS_GatewaySilent(r) ==
  /\ pays[r].pc = "charge"
  /\ pays' = [pays EXCEPT ![r] = [@ EXCEPT !.pc = "waiting", !.gateway = "no_answer",
                                            !.gateway_calls = @ + 1]]
  /\ UNCHANGED <<shopping_cart, next_item_id, cart_gen, orders, charges, outbox, creates>>
  /\ UNCHANGED side

\* Lines 653-676: smtpTransport.sendMail(...) whose promise never settles:
\* neither the then nor the catch callback runs.
PS_MailSilent(r) ==
  /\ pays[r].pc = "mail"
  /\ pays' = [pays EXCEPT ![r] = [@ EXCEPT !.pc = "waiting", !.mail = "no_answer"]]
  /\ UNCHANGED <<shopping_cart, next_item_id, cart_gen, orders, charges, outbox, creates>>
  /\ UNCHANGED side

\* ------------------------------------------------------ updateCreditCard
\* Card numbers as sequences of characters.
CardInputs == {<<"4", "2", "4", "2", "1", "1">>, <<"5", "5", "5", "5", "2", "2", "2">>}

\* Line 275: credit_card.replace(/.(?=.{4,}$)/g, 'x'): every character that has
\* four or more characters after it becomes x.
HiddenCreditCard(card) ==
  [i \in 1..Len(card) |-> IF Len(card) - i >= 4 THEN "x" ELSE card[i]]

\* Line 278: `${updatedCustomer.credit_card}, (${hiddenCreditCard})`
CreditCardField(card) ==
  card \o <<",", " ", "(">> \o HiddenCreditCard(card) \o <<")">>

\* Lines 266-287: store the card number, answer the customer's data with the
\* credit_card field above.
UpdateCreditCard(cust, card) ==
  /\ customers' = [customers EXCEPT ![cust].credit_card = card]
  /\ last_resp' = [op |-> "updateCreditCard", status |-> 200, customer_id |-> cust,
                   credit_card |-> CreditCardField(card)]
  /\ UNCHANGED <<shopping_cart, next_item_id, cart_gen, orders, charges, outbox,
                 creates, pays, auths, profiles>>

\* ------------------------------------------ create, updateCustomerProfile
\* What the customer handlers leave alone.
shop == <<shopping_cart, next_item_id, cart_gen, orders, charges, outbox,
          creates, pays, last_resp, auths>>

\* req.body.email; "": the field is absent
ProfileEmails == {"", "own@x", "new@x"}

\* Customer.findOne({ where: { email } })
CustomerFindOneByEmail(email) ==
  IF \E i \in DOMAIN customers : customers[i].email = email
    THEN Some(customers[CHOOSE i \in DOMAIN customers : customers[i].email = email])
    ELSE Null

\* History: the email is the email of a customer other than cust (0: of any).
EmailInUse(email, cust) ==
  \E i \in DOMAIN customers : i /= cust /\ customers[i].email = email

NewProfile ==
  [kind |-> "", pc |-> "done", customer_id |-> 0, email |-> "", code |-> "",
   status |-> 0, wrote |-> FALSE, in_use |-> FALSE]

\* create, lines 37-63: the required fields, then the lookup by email; USR_04
\* when a customer has it.
Create_FindOne(email) ==
  /\ profiles' = Append(profiles,
       LET r0 == [NewProfile EXCEPT !.kind = "create", !.email = email]
       IN  IF email = ""
             THEN [r0 EXCEPT !.status = 400, !.code = "USR_02"]
           ELSE IF Truthy(CustomerFindOneByEmail(email))
             THEN [r0 EXCEPT !.status = 400, !.code = "USR_04", !.in_use = TRUE]
           ELSE [r0 EXCEPT !.pc = "save"])
  /\ UNCHANGED <<customers>>
  /\ UNCHANGED shop

\* create, lines 64-85: Customer.build, jwt.sign, customer.save(), then 201.  The
\* handler does not look the email up again; when a customer has taken it in
\* the meantime the table either takes the second row or, where it holds a
\* unique index on email, rejects the insert (catch: next(error)).
Create_Save(r) ==
  /\ profiles[r].kind = "create" /\ profiles[r].pc = "save"
  /\ \/ /\ customers' = Append(customers,
                [customer_id |-> Len(customers) + 1, name |-> "N",
                 email |-> profiles[r].email, credit_card |-> <<>>])
        /\ profiles' = [profiles EXCEPT ![r] = [@ EXCEPT
              !.pc = "done", !.status = 201, !.wrote = TRUE,
              !.customer_id = Len(customers) + 1,
              !.in_use = EmailInUse(profiles[r].email, 0)]]
     \/ /\ EmailInUse(profiles[r].email, 0)
        /\ customers' = customers
        /\ profiles' = [profiles EXCEPT ![r] = [@ EXCEPT
              !.pc = "done", !.code = "SequelizeUniqueConstraintError",
              !.in_use = TRUE]]
  /\ UNCHANGED shop

\* updateCustomerProfile, lines 187-200: load the caller; an unchanged email
\* goes straight to the update, a new one to the lookup by email.
Update_FindByPk(cust, email) ==
  /\ profiles' = Append(profiles,
       LET r0 == [NewProfile EXCEPT !.kind = "update", !.email = email,
                                    !.customer_id = cust]
       IN  IF email = CustomerFindByPk(cust)[1].email
             THEN [r0 EXCEPT !.pc = "update"]
             ELSE [r0 EXCEPT !.pc = "findOne"])
  /\ UNCHANGED <<customers>>
  /\ UNCHANGED shop

\* updateCustomerProfile, lines 201-209: the lookup by email; USR_04 when a
\* customer has it.
Update_FindOne(r) ==
  /\ profiles[r].kind = "update" /\ profiles[r].pc = "findOne"
  /\ profiles' = [profiles EXCEPT ![r] =
       IF Truthy(CustomerFindOneByEmail(profiles[r].email))
         THEN [@ EXCEPT !.pc = "done", !.status = 400, !.code = "USR_04",
                        !.in_use = TRUE]
         ELSE [@ EXCEPT !.pc = "update"]]
  /\ UNCHANGED <<customers>>
  /\ UNCHANGED shop

\* updateCustomerProfile, lines 192-199 and 210-218: customer.update({ ...req.body }),
\* then 200; as in create, with no second lookup.
Update_Write(r) ==
  /\ profiles[r].kind = "update" /\ profiles[r].pc = "update"
  /\ \/ /\ customers' = [customers EXCEPT
                ![profiles[r].customer_id].email = profiles[r].email]
        /\ profiles' = [profiles EXCEPT ![r] = [@ EXCEPT
              !.pc = "done", !.status = 200, !.wrote = TRUE,
              !.in_use = EmailInUse(profiles[r].email, profiles[r].customer_id)]]
     \/ /\ EmailInUse(profiles[r].email, profiles[r].customer_id)
        /\ customers' = customers
        /\ profiles' = [profiles EXCEPT ![r] = [@ EXCEPT
              !.pc = "done", !.code = "SequelizeUniqueConstraintError",
              !.in_use = TRUE]]
  /\ UNCHANGED shop

\* ------------------------------------------------- router and auth middleware
\* What the checkout handlers leave alone, the auth requests apart.
checkout == <<shopping_cart, next_item_id, cart_gen, orders, charges, outbox,
              creates, pays, customers, last_resp, profiles>>

\* A token: how its signature stands, and the customer_id of its payload
\* (0: the payload has none, as in a token signed before the customer was saved).
TokenInputs ==
  {[sig |-> "good", customer_id |-> 1], [sig |-> "good", customer_id |-> 9],
   [sig |-> "good", customer_id |-> 0], [sig |-> "bad",  customer_id |-> 1]}

\* The user-key header: <<>> when absent, else <<scheme, rest>>, the header
\* being scheme followed by rest.
HeaderInputs ==
  {<<>>} \cup {<<"Basic ", t>> : t \in {[sig |-> "good", customer_id |-> 1]}}
         \cup {<<"Bearer ", t>> : t \in TokenInputs}

\* Paths and the router that serves each (routes 32-38, in mounting order).
PathInputs == {"products", "shoppingcart", "shipping"}
RouteOf(path) ==
  CASE path = "products"     -> "productRoute"
    [] path = "shoppingcart" -> "shoppingCartRoute"
    [] OTHER                 -> "shippingRoute"

\* The routers mounted before the auth middleware.
BeforeAuth == {"welcomeRoute", "customerRoute", "productRoute"}

\* Line 15: header.startsWith('Bearer ')
StartsWithBearer(header) == header[1] = "Bearer "

\* Line 23: header.substring(7)
TokenOf(header) == header[2]

\* jwt.verify(token, publicKey, callback): <<err, decoded>>
Verify(token) ==
  IF token.sig = "good" THEN <<Null, Some([customer_id |-> token.customer_id])>>
                        ELSE <<Some("JsonWebTokenError"), Null>>

NewAuth ==
  [pc |-> "done", path |-> "", header |-> <<>>, decoded |-> Null, status |-> 0,
   code |-> "", customer_id |-> 0, ran |-> ""]

\* Lines 5-29, with the routers mounted before: a request for an earlier
\* router is served there; any other goes through the header checks and
\* jwt.verify, and on to the customer lookup.
Auth_Request(path, header) ==
  /\ auths' = Append(auths,
       LET r0 == [NewAuth EXCEPT !.path = path, !.header = header]
       IN  IF RouteOf(path) \in BeforeAuth
             THEN [r0 EXCEPT !.status = 200, !.ran = RouteOf(path)]
           ELSE IF header = <<>>
             THEN [r0 EXCEPT !.status = 401, !.code = "AUT_01"]
           ELSE IF ~StartsWithBearer(header)
             THEN [r0 EXCEPT !.status = 401, !.code = "AUT_02"]
           ELSE IF Truthy(Verify(TokenOf(header))[1])
             THEN [r0 EXCEPT !.status = 403, !.code = Verify(TokenOf(header))[1][1]]
           ELSE [r0 EXCEPT !.pc = "findOne", !.decoded = Verify(TokenOf(header))[2]])
  /\ UNCHANGED checkout

\* The lookup answering next() whether or not it found a customer.
Auth_FindOneNoCheck(r) ==
  /\ auths[r].pc = "findOne"
  /\ LET id == auths[r].decoded[1].customer_id
     IN  auths' = [auths EXCEPT ![r] =
           IF id = 0
             THEN [@ EXCEPT !.pc = "done", !.status = 401, !.code = "SequelizeError"]
             ELSE [@ EXCEPT !.pc = "done", !.status = 200, !.customer_id = id,
                            !.ran = RouteOf(auths[r].path)]]
  /\ UNCHANGED checkout

\* Lines 30-47: Customer.findOne({ where: { customer_id } }); a payload without
\* customer_id gives a where clause the query rejects (catch: 401); a customer
\* found sets req.customer_id and calls next(), which runs the router of the
\* path; none found: 401 AUT_02.
Auth_FindOne(r) ==
  /\ auths[r].pc = "findOne"
  /\ LET id == auths[r].decoded[1].customer_id
     IN  auths' = [auths EXCEPT ![r] =
           IF id = 0
             THEN [@ EXCEPT !.pc = "done", !.status = 401, !.code = "SequelizeError"]
           ELSE IF Truthy(CustomerFindByPk(id))
             THEN [@ EXCEPT !.pc = "done", !.status = 200, !.customer_id = id,
                            !.ran = RouteOf(auths[r].path)]
           ELSE [@ EXCEPT !.pc = "done", !.status = 401, !.code = "AUT_02"]]
  /\ UNCHANGED checkout

\* ----------------------------------------------------------- the system
Init ==
  /\ shopping_cart = <<>>
  /\ next_item_id = 1
  /\ cart_gen = [c \in CartIds |-> 0]
  /\ orders = <<>>
  /\ charges = {}
  /\ outbox = {}
  /\ creates = <<>>
  /\ pays = <<>>
  /\ customers = CustomerTable
  /\ last_resp = [op |-> "none"]
  /\ auths = <<>>
  /\ profiles = <<>>

Next ==
  \/ \E c \in CartIds, p \in ProductInputs, q \in Quantities :
       next_item_id <= MaxItems /\ AddItemToCart(c, p, q)
  \/ \E c \in CartIds : EmptyCart(c)
  \/ \E c \in CartIds, cust \in Callers, ref \in RefInputs :
       CO_FindCart(c, cust, ref[1], ref[2])
  \/ \E r \in 1..Len(creates) : CO_Query(r)
  \/ \E oid \in OrderInputs, cust \in Callers : PS_FindOrder(oid, cust)
  \/ \E r \in 1..Len(pays), email \in EmailInputs : PS_FindCustomer(r, email)
  \/ \E r \in 1..Len(pays) : PS_Charge(r)
  \/ \E r \in 1..Len(pays) : PS_SendMail(r)

Spec == Init /\ [][Next]_vars

\* ------------------------------------- checkout with the card on file
NextCard ==
  \/ Next
  \/ \E cust \in Callers, card \in CardInputs : UpdateCreditCard(cust, card)

SpecCard == Init /\ [][NextCard]_vars

\* ------------------------------------------ settlements by any customer
\* Customer 1 checks out; any customer asks to settle.
NextOwner ==
  \/ \E c \in CartIds, p \in ProductInputs, q \in Quantities :
       next_item_id <= MaxItems /\ AddItemToCart(c, p, q)
  \/ \E c \in CartIds, cust \in Callers, ship \in ShippingIds, tax \in TaxIds :
       CO_FindCart(c, cust, ship, tax)
  \/ \E r \in 1..Len(creates) : CO_Query(r)
  \/ \E oid \in OrderInputs, cust \in CustomerIds : PS_FindOrder(oid, cust)
  \/ \E r \in 1..Len(pays) : PS_FindCustomer(r, "")
  \/ \E r \in 1..Len(pays) : PS_Charge(r)
  \/ \E r \in 1..Len(pays) : PS_SendMail(r)

SpecOwner == Init /\ [][NextOwner]_vars

\* ------------------------------------------------ customers signing up
MaxProfiles == 3

NextCustomer ==
  \/ \E email \in ProfileEmails :
       Len(profiles) < MaxProfiles /\ Create_FindOne(email)
  \/ \E r \in 1..Len(profiles) : Create_Save(r)
  \/ \E cust \in CustomerIds, email \in ProfileEmails \ {""} :
       Len(profiles) < MaxProfiles /\ Update_FindByPk(cust, email)
  \/ \E r \in 1..Len(profiles) : Update_FindOne(r)
  \/ \E r \in 1..Len(profiles) : Update_Write(r)

SpecCustomer == Init /\ [][NextCustomer]_vars

\* ------------------------------------------------ requests at the router
MaxAuths == 2

NextAuth ==
  \/ \E path \in PathInputs, header \in HeaderInputs :
       Len(auths) < MaxAuths /\ Auth_Request(path, header)
  \/ \E r \in 1..Len(auths) : Auth_FindOne(r)

SpecAuth == Init /\ [][NextAuth]_vars

\* ------------------------------------------------ loading a cart
\* A cart that is filled, priced by getCart and made into orders.
LoadProducts == {2, 3}

NextLoad ==
  \/ \E c \in CartIds, p \in LoadProducts, q \in Quantities :
       next_item_id <= MaxItems /\ AddItemToCart(c, p, q)
  \/ \E c \in CartIds : GetCart(c)
  \/ \E c \in CartIds, cust \in Callers, ship \in ShippingIds, tax \in TaxIds :
       CO_FindCart(c, cust, ship, tax)
  \/ \E r \in 1..Len(creates) : CO_Query(r)

SpecLoad == Init /\ [][NextLoad]_vars

\* ------------------------------------------- checkout with order reads
\* One customer checking out with valid options, settling and reading orders.
NextRead ==
  \/ \E c \in CartIds, p \in ProductInputs, q \in Quantities :
       next_item_id <= MaxItems /\ AddItemToCart(c, p, q)
  \/ \E c \in CartIds, cust \in Callers, ship \in ShippingIds, tax \in TaxIds :
       CO_FindCart(c, cust, ship, tax)
  \/ \E r \in 1..Len(creates) : CO_Query(r)
  \/ \E oid \in OrderInputs, cust \in Callers : PS_FindOrder(oid, cust)
  \/ \E r \in 1..Len(pays) : PS_FindCustomer(r, "")
  \/ \E r \in 1..Len(pays) : PS_Charge(r)
  \/ \E r \in 1..Len(pays) : PS_SendMail(r)
  \/ \E oid \in OrderInputs : GetOrderSummary(oid)
  \/ \E cust \in Callers : GetCustomerOrders(cust)

SpecRead == Init /\ [][NextRead]_vars

\* ------------------------------- checkout with services that may go silent
NextSilent ==
  \/ Next
  \/ \E r \in 1..Len(pays) : PS_GatewaySilent(r)
  \/ \E r \in 1..Len(pays) : PS_MailSilent(r)

\* Every step that can be taken is taken in the end: the database, the
\* gateway and the mail transport answer when they do answer, and the event
\* loop runs every callback that is due.
SpecSilent == Init /\ [][NextSilent]_vars /\ WF_vars(NextSilent)

\* ------------------------------------------------ carts of several items
\* What a checkout is made of when the cart holds up to MaxCartRows rows of
\* either product, with valid shipping and tax options.
OrderProducts   == {1, 2}
OrderQuantities == {1, 2}

NextOrder ==
  \/ \E c \in CartIds, p \in OrderProducts, q \in OrderQuantities :
       next_item_id <= MaxCartRows /\ AddItemToCart(c, p, q)
  \/ \E c \in CartIds, cust \in Callers, ship \in ShippingIds, tax \in TaxIds :
       CO_FindCart(c, cust, ship, tax)
  \/ \E r \in 1..Len(creates) : CO_Query(r)

SpecOrder == Init /\ [][NextOrder]_vars

\* --------------------------------------------------- what a cart may hold
\* The cart handlers with whatever a client may send, then priced (getCart)
\* and made into an order.
CartProducts   == {2, 3, 4, 9}
CartQuantities == {-1, 0, 2}
MaxCartOrders  == 1

NextCart ==
  \/ \E c \in CartIds, p \in CartProducts, q \in CartQuantities :
       next_item_id <= MaxCartRows /\ AddItemToCart(c, p, q)
  \/ \E id \in 1..MaxCartRows, q \in CartQuantities : UpdateCartItem(id, q)
  \/ \E c \in CartIds : GetCart(c)
  \/ \E c \in CartIds, cust \in Callers, ship \in ShippingIds, tax \in TaxIds :
       Len(creates) < MaxCartOrders /\ CO_FindCart(c, cust, ship, tax)
  \/ \E r \in 1..Len(creates) : CO_Query(r)

SpecCart == Init /\ [][NextCart]_vars

\* ------------------------------------------------------------ properties
Pays    == 1..Len(pays)
Creates == 1..Len(creates)
OrderIds == 1..Len(orders)

\* C1: at most one successful gateway charge exists for an order, whatever the
\* interleaving of the settlement requests on it.
C1_AtMostOneChargePerOrder ==
  \A oid \in OrderIds : Cardinality(ChargesOf(oid)) <= 1

\* C2: a settle call that starts after an earlier settle call on the same order
\* has answered makes no gateway call and is answered OrderAlreadySettled.
C2_SecondSettleRejected ==
  \A r \in Pays :
     pays[r].settled_before =>
        /\ pays[r].gateway = ""
        /\ pays[r].pc = "done" => pays[r].resp.error = "OrderAlreadySettled"

\* C3: an order is created with status created, its status changes only from
\* created to paid or payment_failed, and orders are never removed.
C3_StatusMonotonic ==
  [][ /\ Len(orders') >= Len(orders)
      /\ \A oid \in 1..Len(orders') :
           IF oid \in OrderIds
             THEN \/ orders'[oid].status = orders[oid].status
                  \/ /\ orders[oid].status = "created"
                     /\ orders'[oid].status \in {"paid", "payment_failed"}
             ELSE orders'[oid].status = "created" ]_vars

\* a settlement of a created order has gone through the gateway
C3_Witness ==
  \E r \in Pays : /\ pays[r].gateway = "succeeded"
                  /\ orders[pays[r].order_id].status = "created"

\* C4: a settle call whose gateway charge succeeded leaves the order paid, the
\* charge recorded, and answers 200 with the gateway's charge id.
C4_SuccessMarksPaid ==
  \A r \in Pays :
     (pays[r].pc = "done" /\ pays[r].gateway = "succeeded") =>
        /\ orders[pays[r].order_id].status = "paid"
        /\ pays[r].charge[1] \in charges
        /\ pays[r].resp.status = 200
        /\ pays[r].resp.charge_id = pays[r].charge[1].id

\* C5: a settle call whose gateway call failed leaves the order payment_failed,
\* made no charge, and is answered with the gateway's error.
C5_FailureMarksPaymentFailed ==
  \A r \in Pays :
     (pays[r].pc = "done" /\ pays[r].gateway \in {"declined", "unreachable"}) =>
        /\ orders[pays[r].order_id].status = "payment_failed"
        /\ pays[r].charge = Null
        /\ pays[r].resp.via = "next"
        /\ pays[r].resp.error \in {"StripeCardError", "StripeConnectionError"}

\* C6: a settle call whose confirmation mail failed after a successful charge is
\* still answered 200, with a warning flag, and its order is paid.
C6_MailFailureStillSuccess ==
  \A r \in Pays :
     pays[r].mail = "failed" =>
        /\ pays[r].resp.status = 200
        /\ pays[r].resp.warning
        /\ orders[pays[r].order_id].status = "paid"

\* C7: after the confirmation mail of a settle call failed, the order row and its
\* line items are as the call loaded them and its charge is still in the ledger.
C7_MailFailureKeepsOrderAndCharge ==
  \A r \in Pays :
     pays[r].mail = "failed" =>
        /\ pays[r].order_id \in OrderIds
        /\ WithSubtotals(orders[pays[r].order_id]) = pays[r].order[1]
        /\ pays[r].charge[1] \in charges

C7_Witness ==
  \E r \in Pays : pays[r].mail = "failed" /\ pays[r].gateway = "succeeded"

\* C8: a createOrder whose cart lookup finds no line item is answered 404
\* (cart not found) at once, never calls the procedure and creates no order.
C8_EmptyCartRejected ==
  \A r \in Creates :
     creates[r].cart = Null =>
        /\ creates[r].pc = "done"
        /\ creates[r].resp.status = 404
        /\ creates[r].resp.error = "CartNotFound"
        /\ creates[r].order_id = 0

C8_Witness ==
  \E r \in Creates : creates[r].cart = Null /\ orders = <<>>

\* C9: a finished createOrder whose shipping_id or tax_id names no existing
\* option was answered 404 (shipping / tax not found) and created no order.
C9_MissingReferenceRejected ==
  \A r \in Creates :
     ( /\ creates[r].pc = "done"
       /\ Truthy(creates[r].cart)
       /\ (creates[r].shipping_id \notin ShippingIds \/ creates[r].tax_id \notin TaxIds) ) =>
        /\ creates[r].resp.status = 404
        /\ creates[r].resp.error \in {"ShippingNotFound", "TaxNotFound"}
        /\ creates[r].order_id = 0

\* C10: no two orders were made from the same cart (the same cart_id between two
\* times it had no row).
C10_ConsumeOnce ==
  \A o1, o2 \in OrderIds :
     (orders[o1].cart_id = orders[o2].cart_id /\ orders[o1].cart_gen = orders[o2].cart_gen)
        => o1 = o2

C12_LineCost(it) ==
  LET pr == CHOOSE p \in ProductIds : ProductTable[p].name = it.product_name
      d  == ProductTable[pr].discounted_price
  IN  it.quantity * (IF d > 0 /\ d < ProductTable[pr].price
                       THEN d ELSE ProductTable[pr].price)

RECURSIVE C12_Lines(_)
C12_Lines(items) ==
  IF items = <<>> THEN 0 ELSE C12_LineCost(Head(items)) + C12_Lines(Tail(items))

C12_TotalIsItemsPlusTaxPlusShipping ==
  \A oid \in OrderIds :
     orders[oid].total_amount =
        C12_Lines(orders[oid].orderItems)
          + (IF orders[oid].shipping_id \in ShippingIds THEN 3 ELSE 0)
          + (IF orders[oid].tax_id \in TaxIds THEN 2 ELSE 0)

\* the order of the example
C12_Witness ==
  \E oid \in OrderIds :
     /\ Len(orders[oid].orderItems) = 2
     /\ \E i, j \in 1..2 :
          /\ orders[oid].orderItems[i].product_name = "A"
          /\ orders[oid].orderItems[i].quantity = 2
          /\ orders[oid].orderItems[j].product_name = "B"
          /\ orders[oid].orderItems[j].quantity = 1
     /\ orders[oid].total_amount = 29

\* C13: every item of a getCart answer carries the subtotal quantity x
\* discounted price when the product has a discounted price that is positive
\* and lower than its price, and quantity x price otherwise.
C13_SubtotalRule ==
  last_resp.op = "getCart" =>
    \A i \in 1..Len(last_resp.items) :
       LET it == last_resp.items[i]
       IN  it.subtotal =
             it.quantity * (IF it.discounted_price > 0 /\ it.discounted_price < it.price
                              THEN it.discounted_price ELSE it.price)

\* C14: the amount of every charge the gateway holds is the total stored on
\* its order times 100 (a total of 29 is charged as 2900).
C14_AmountIsTotalTimes100 ==
  /\ \A ch \in charges :
        /\ ch.order \in OrderIds
        /\ ch.amount = orders[ch.order].total_amount * 100
  /\ \A r \in Pays :
        Truthy(pays[r].charge) =>
           pays[r].charge[1].amount = pays[r].order[1].total_amount * 100

\* a charge for an order made of one row, 2 x B at 4, shipping 3, tax 2
C14_Witness ==
  \E ch \in charges :
     /\ orders[ch.order].total_amount = 13
     /\ ch.amount = 1300

\* C15: a settle call for an order id that names no order is answered 404
\* (order not found) at once, makes no gateway call and sends no mail.
C15_UnknownOrderNotFound ==
  \A r \in Pays :
     pays[r].order = Null =>
        /\ pays[r].pc = "done"
        /\ pays[r].resp.status = 404
        /\ pays[r].resp.error = "OrderNotFound"
        /\ pays[r].gateway = ""
        /\ pays[r].mail = ""
        /\ \A ch \in charges : ch.id /= r
        /\ \A m \in outbox : m.req /= r

\* a settle call for an order id beyond the orders there are, while another
\* call has charged and mailed
C15_Witness ==
  \E r, k \in Pays :
     /\ pays[r].order = Null
     /\ pays[r].order_id \notin OrderIds
     /\ pays[k].mail = "sent"

C17_QuantitiesPositive ==
  /\ \A i \in 1..Len(shopping_cart) : shopping_cart[i].quantity > 0
  /\ last_resp.op = "getCart" =>
        \A i \in 1..Len(last_resp.items) : last_resp.items[i].quantity > 0
  /\ \A oid \in OrderIds :
        \A i \in 1..Len(orders[oid].orderItems) : orders[oid].orderItems[i].quantity > 0

\* C18: no answer of updateCreditCard or processStripePayment holds a stored
\* card number in full: at most its masked form.
Contains(s, t) ==
  \E i \in 0..(Len(s) - Len(t)) : SubSeq(s, i + 1, i + Len(t)) = t

C18_NoUnmaskedCard ==
  /\ last_resp.op = "updateCreditCard" =>
        \A c \in CustomerIds :
           Len(customers[c].credit_card) > 4 =>
              ~Contains(last_resp.credit_card, customers[c].credit_card)
  /\ \A r \in Pays : "credit_card" \notin pays[r].resp.keys

\* C19: every settle call returns: a request that has come in is answered in
\* the end, also when the gateway or the mail transport never answers.
C19_SettleReturns ==
  \A r \in 1..MaxReqs :
     (r \in Pays) ~> (r \in Pays /\ pays[r].pc = "done")

\* C20: an order is paid or payment_failed only when the gateway has answered
\* a settlement of that order accordingly; while the gateway call of a
\* settlement is still out, that settlement has written no status.
C20_StatusAfterGateway ==
  \A oid \in OrderIds :
     /\ orders[oid].status = "paid" =>
          \E r \in Pays : pays[r].order_id = oid /\ pays[r].gateway = "succeeded"
     /\ orders[oid].status = "payment_failed" =>
          \E r \in Pays : /\ pays[r].order_id = oid
                          /\ pays[r].gateway \in {"declined", "unreachable"}

\* the gateway call of a settlement is out and the order is still created,
\* while another settlement of the same order has already been charged
C20_Witness ==
  \E r, k \in Pays :
     /\ pays[r].pc = "charge" /\ pays[r].gateway = ""
     /\ pays[k].order_id = pays[r].order_id /\ pays[k].gateway = "succeeded"
     /\ orders[pays[r].order_id].status = "created"

\* C21: a processStripePayment request calls the gateway at most once,
\* whatever the gateway and the mail transport answer.
C21_AtMostOneGatewayCall ==
  \A r \in Pays :
     /\ pays[r].gateway_calls <= 1
     /\ pays[r].pc = "done" => pays[r].gateway_calls = (IF pays[r].gateway = "" THEN 0 ELSE 1)

\* one request found the gateway unreachable, another lost its mail: both are
\* finished after one call each
C21_Witness ==
  \E r, k \in Pays :
     /\ pays[r].pc = "done" /\ pays[r].gateway = "unreachable"
     /\ pays[r].gateway_calls = 1
     /\ pays[k].pc = "done" /\ pays[k].mail = "failed"
     /\ pays[k].gateway_calls = 1

\* C22: once an order exists, no step changes its total amount, its customer,
\* its shipping and tax options or its line items (product name, quantity,
\* unit cost): not a settlement, not a read of the order.
C22_OrderFrozen ==
  [][\A oid \in OrderIds :
       /\ oid <= Len(orders')
       /\ orders'[oid].total_amount = orders[oid].total_amount
       /\ orders'[oid].customer_id = orders[oid].customer_id
       /\ orders'[oid].shipping_id = orders[oid].shipping_id
       /\ orders'[oid].tax_id = orders[oid].tax_id
       /\ orders'[oid].orderItems = orders[oid].orderItems]_vars

\* an order that has been settled, mail and all, then read
C22_Witness ==
  /\ last_resp.op = "getOrderSummary"
  /\ last_resp.rows /= <<>>
  /\ \E r \in Pays : /\ pays[r].order_id = last_resp.order_id
                      /\ pays[r].pc = "done" /\ pays[r].mail = "sent"

\* C23: a getCart, and the cart lookup that opens a createOrder, leave every
\* row of shopping_cart as it was: no quantity or product changes, and no
\* subtotal is stored.
C23_CartReadOnly ==
  [][ ( \/ (last_resp'.op = "getCart" /\ last_resp' /= last_resp)
        \/ Len(creates') > Len(creates) )
      => (shopping_cart' = shopping_cart /\ next_item_id' = next_item_id) ]_vars

\* a cart that has been priced by getCart and looked up by a createOrder,
\* its rows still there
C23_Witness ==
  /\ last_resp.op = "getCart"
  /\ last_resp.items /= <<>>
  /\ Len(shopping_cart) = Len(last_resp.items)
  /\ \E r \in Creates : creates[r].pc = "query"

\* C24: a router mounted after the auth middleware runs for a request only
\* when the user-key header is there, starts with Bearer, holds a token that
\* verifies and names a customer there is, and then req.customer_id is that
\* customer's id; every other request for such a router ends 401 or 403.
Authentic(a) ==
  /\ a.header /= <<>>
  /\ a.header[1] = "Bearer "
  /\ a.header[2].sig = "good"
  /\ a.header[2].customer_id \in DOMAIN customers

C24_AuthGuardsHandlers ==
  \A r \in 1..Len(auths) :
     RouteOf(auths[r].path) \notin BeforeAuth =>
        /\ auths[r].ran /= "" =>
             /\ Authentic(auths[r])
             /\ auths[r].customer_id = auths[r].header[2].customer_id
        /\ (auths[r].pc = "done" /\ ~Authentic(auths[r])) =>
             /\ auths[r].status \in {401, 403}
             /\ auths[r].ran = ""

\* one request let through to the cart router, one for the shipping router
\* turned away for a token naming no customer
C24_Witness ==
  \E r, k \in 1..Len(auths) :
     /\ auths[r].ran = "shoppingCartRoute" /\ auths[r].customer_id = 1
     /\ auths[k].path = "shipping" /\ auths[k].pc = "done"
     /\ auths[k].header = <<"Bearer ", [sig |-> "good", customer_id |-> 9]>>
     /\ auths[k].status = 401

\* C25: every gateway charge and every confirmation mail of a settlement is
\* for an order whose customer is the customer who made the request.
C25_OnlyOwnOrders ==
  /\ \A ch \in charges : orders[ch.order].customer_id = pays[ch.id].customer_id
  /\ \A m \in outbox : orders[m.order].customer_id = pays[m.req].customer_id

\* C26: no two customers have the same email, and a create or an email change
\* that comes to an end with its email held by another customer has been
\* answered USR_04 and has written nothing.
C26_EmailsUnique ==
  /\ \A i, j \in DOMAIN customers :
        customers[i].email = customers[j].email => i = j
  /\ \A r \in 1..Len(profiles) :
        (profiles[r].pc = "done" /\ profiles[r].in_use) =>
           (profiles[r].code = "USR_04" /\ ~profiles[r].wrote)

\* C27: sendMail is called by a settlement only after the gateway has answered
\* that same settlement with a successful charge: never after a failed call
\* and never without one.
C27_MailOnlyAfterCharge ==
  /\ \A r \in Pays :
        (pays[r].pc = "mail" \/ pays[r].mail /= "") =>
           /\ pays[r].gateway = "succeeded"
           /\ pays[r].gateway_calls = 1
           /\ Truthy(pays[r].charge) /\ pays[r].charge[1] \in charges
  /\ \A m \in outbox :
        /\ pays[m.req].gateway = "succeeded"
        /\ \E ch \in charges : ch.id = m.req /\ ch.order = m.order

\* a confirmation out for one settlement while another settlement of the
\* same order was declined and sent none
C27_Witness ==
  \E r, k \in Pays :
     /\ pays[r].mail = "sent"
     /\ \E m \in outbox : m.req = r
     /\ pays[k].order_id = pays[r].order_id
     /\ pays[k].pc = "done" /\ pays[k].gateway = "declined" /\ pays[k].mail = ""

====
